---- MODULE Spec2Model ----
(***************************************************************************)
(* Multi-player Reversi engine (src/reversi/reversi.py): the Board store   *)
(* (grid + per-player piece lists) and the Reversi rules engine.           *)
(*                                                                         *)
(* Representation                                                          *)
(*   - a position is a pair <<row, col>> of integers;                      *)
(*   - an Optional[int] grid cell is a set: {} is None, {p} is player p;   *)
(*   - the dict _location_of_pieces is a sequence of entries               *)
(*     [k |-> player, v |-> set of positions] in insertion order. A list   *)
(*     of positions is kept as a set: add_piece never appends a location   *)
(*     already present, and every read of a list is a membership test, a   *)
(*     length, or an accumulation into a set.                              *)
(***************************************************************************)
EXTENDS Integers, Sequences, FiniteSets, TLC

VARIABLES side, players, othello, board, location_of_pieces, turn, op, depth,
          sim_game

vars == <<side, players, othello, board, location_of_pieces, turn, op, depth,
          sim_game>>

\* `depth` counts the apply_move calls since construction; `op` is the log
\* of the last call: its name, its position argument (for simulate_moves
\* the list of moves), the turn it was called at, what it raised, what it
\* returned and, for apply_move, how many occupied cells changed owner.
\* The log of a load_game call also holds its two arguments.
\* `sim_game` is the engine a caller of simulate_moves got back and still
\* holds: its object identity `obj` (0 is the engine the caller constructed,
\* NoObj no engine), its grid, piece lists and turn, the moves `todo` of the
\* simulated list the caller has not yet made on the engine itself
\* (`replaying` while it made nothing else), and the number `moves` of
\* apply_move calls made on sim_game, those of simulate_moves included.
\* Spec stops playing at MaxMoves moves.
MaxMoves == 5

\* SpecQ, which also issues the position queries, plays MaxQueryMoves moves.
MaxQueryMoves == 2

\* SpecOOB, which also plays off-board positions, plays MaxOobMoves moves.
MaxOobMoves == 2

\* done() keeps incrementing a turn that already left 1..players; the
\* specifications stop calling it once turn exceeds MaxTurn.
MaxTurn == 7

\* SpecSim, which also calls simulate_moves, plays MaxSimDepth moves on the
\* engine itself and simulates lists of at most MaxSimMoves moves.
MaxSimDepth == 1

MaxSimMoves == 2

\* SpecNew constructs engines with side in 1 .. MaxSide and players in
\* 1 .. MaxPlayers, and plays MaxNewMoves moves on each.
\* SpecLoad, which hands load_game any snapshot in any state, plays
\* MaxLoadMoves moves.
MaxLoadMoves == 1

\* SpecEnd, which also calls apply_move on finished games, plays
\* MaxEndMoves moves.
MaxEndMoves == 4

\* SpecReplay makes MaxReplayMoves moves on the engine, the replayed ones
\* included.
MaxReplayMoves == 2

MaxSide == 8

MaxPlayers == 6

MaxNewMoves == 1

None == {}

Add(p, d) == <<p[1] + d[1], p[2] + d[2]>>

direction_list ==
    << <<0, 1>>, <<1, 1>>, <<1, 0>>, <<1, -1>>,
       <<0, -1>>, <<-1, -1>>, <<-1, 0>>, <<-1, 1>> >>

Cells == (0 .. side - 1) \X (0 .. side - 1)

----------------------------------------------------------------------------
(* dict helpers *)

has_key(d, k) == \E i \in DOMAIN d : d[i].k = k

get(d, k) == d[CHOOSE i \in DOMAIN d : d[i].k = k].v

----------------------------------------------------------------------------
(* Board *)

RECURSIVE sum_len(_, _)
sum_len(d, i) ==
    IF i > Len(d) THEN 0 ELSE Cardinality(d[i].v) + sum_len(d, i + 1)

piece_count(d) == sum_len(d, 1)

\* Python list indexing: -len <= i < len is accepted, negatives wrap.
index_ok(i) == -side <= i /\ i < side

py_index(i) == IF i < 0 THEN i + side ELSE i

\* Board.add_piece: the grid store raises IndexError before the dict is
\* touched; the dict records the location exactly as it was passed.
add_piece(b, d, player, location) ==
    IF ~(index_ok(location[1]) /\ index_ok(location[2]))
    THEN [raised |-> TRUE, board |-> b, loc |-> d]
    ELSE [raised |-> FALSE,
          board |-> [b EXCEPT ![<<py_index(location[1]),
                                  py_index(location[2])>>] = {player}],
          loc |-> IF has_key(d, player)
                  THEN [i \in DOMAIN d |->
                          IF d[i].k = player
                          THEN [k |-> player, v |-> d[i].v \cup {location}]
                          ELSE d[i]]
                  ELSE Append(d, [k |-> player, v |-> {location}])]

empty_board(n) == [c \in (0 .. n - 1) \X (0 .. n - 1) |-> None]

----------------------------------------------------------------------------
(* possible_moves *)

in_bounds(pos, rows, cols) ==
    (pos[1] >= 0 /\ pos[2] >= 0) /\ (pos[1] < rows /\ pos[2] < cols)

RECURSIVE walk(_, _, _)
walk(cur, dir, enemy_pieces) ==
    IF cur \in enemy_pieces
    THEN walk(Add(cur, dir), dir, enemy_pieces)
    ELSE cur

end_of_run(p, dir, enemy_pieces) == walk(Add(p, dir), dir, enemy_pieces)

\* possible_moves without its while loop: only runs of length one
possible_moves_one_step(dirs, own_pieces, enemy_pieces, rows, cols) ==
    {Add(Add(q[1], dirs[q[2]]), dirs[q[2]]) :
        q \in {x \in own_pieces \X DOMAIN dirs :
                 /\ Add(x[1], dirs[x[2]]) \in enemy_pieces
                 /\ LET sum == Add(Add(x[1], dirs[x[2]]), dirs[x[2]])
                    IN  /\ in_bounds(sum, rows, cols)
                        /\ ~(sum \in enemy_pieces \/ sum \in own_pieces)}}

\* possible_moves without its "if sum in enemy_pieces" test: the run of
\* enemy pieces may be empty
possible_moves_any_neighbour(dirs, own_pieces, enemy_pieces, rows, cols) ==
    {end_of_run(q[1], dirs[q[2]], enemy_pieces) :
        q \in {x \in own_pieces \X DOMAIN dirs :
                 LET sum == end_of_run(x[1], dirs[x[2]], enemy_pieces)
                 IN  /\ in_bounds(sum, rows, cols)
                     /\ ~(sum \in enemy_pieces \/ sum \in own_pieces)}}

possible_moves(dirs, own_pieces, enemy_pieces, rows, cols) ==
    {end_of_run(q[1], dirs[q[2]], enemy_pieces) :
        q \in {x \in own_pieces \X DOMAIN dirs :
                 /\ Add(x[1], dirs[x[2]]) \in enemy_pieces
                 /\ LET sum == end_of_run(x[1], dirs[x[2]], enemy_pieces)
                    IN  /\ in_bounds(sum, rows, cols)
                        /\ ~(sum \in enemy_pieces \/ sum \in own_pieces)}}

----------------------------------------------------------------------------
(* Reversi: properties *)

\* int(x / 2) for an integer x: Python's int() truncates toward zero.
int_half(x) == IF x >= 0 THEN x \div 2 ELSE -((-x) \div 2)

odd_smaller_side == int_half(side - players)

\* odd_larger_side with both halves floored before they are added
odd_larger_side_floored == side \div 2 + players \div 2

odd_larger_side == int_half(side + players)

all_pieces(d) == UNION {d[i].v : i \in DOMAIN d}

othello_moves ==
    (odd_smaller_side .. odd_larger_side - 1)
        \X (odd_smaller_side .. odd_larger_side - 1)

opening_phase(d) == ~othello /\ piece_count(d) < players * players

own_pieces_of(d, t) == IF has_key(d, t) THEN get(d, t) ELSE {}

enemy_pieces_of(d, t) == UNION {d[i].v : i \in {j \in DOMAIN d : d[j].k # t}}

available_moves(d, t) ==
    IF opening_phase(d)
    THEN othello_moves \ all_pieces(d)
    ELSE possible_moves(direction_list, own_pieces_of(d, t),
                        enemy_pieces_of(d, t), side, side)

\* done with a scan that stops one player short
RECURSIVE done_loop_short(_, _, _)
done_loop_short(d, t, i) ==
    IF i < players - 1
    THEN IF available_moves(d, t) = {}
         THEN done_loop_short(d, IF t = players THEN 1 ELSE t + 1, i + 1)
         ELSE [result |-> FALSE, turn |-> t]
    ELSE [result |-> TRUE, turn |-> t]

\* done: the scan leaves its last turn value behind.
RECURSIVE done_loop(_, _, _)
done_loop(d, t, i) ==
    IF i < players
    THEN IF available_moves(d, t) = {}
         THEN done_loop(d, IF t = players THEN 1 ELSE t + 1, i + 1)
         ELSE [result |-> FALSE, turn |-> t]
    ELSE [result |-> TRUE, turn |-> t]

\* done that puts back the turn it was called with
done_keeps_turn(d, t) == [result |-> done_loop(d, t, 0).result, turn |-> t]

done(d, t) == done_loop(d, t, 0)

\* outcome whose tie branch restarts the list instead of appending to it
RECURSIVE winner_loop_restart(_, _, _, _)
winner_loop_restart(d, i, winner, winnner_piece_count) ==
    IF i > Len(d) THEN winner
    ELSE IF Cardinality(d[i].v) >= winnner_piece_count
         THEN winner_loop_restart(d, i + 1, <<d[i].k>>, Cardinality(d[i].v))
         ELSE winner_loop_restart(d, i + 1, winner, winnner_piece_count)

\* outcome: winners in dict order.
RECURSIVE winner_loop(_, _, _, _)
winner_loop(d, i, winner, winnner_piece_count) ==
    IF i > Len(d) THEN winner
    ELSE IF Cardinality(d[i].v) > winnner_piece_count
         THEN winner_loop(d, i + 1, <<d[i].k>>, Cardinality(d[i].v))
         ELSE IF Cardinality(d[i].v) = winnner_piece_count
              THEN winner_loop(d, i + 1, Append(winner, d[i].k),
                               winnner_piece_count)
              ELSE winner_loop(d, i + 1, winner, winnner_piece_count)

\* outcome without its "if self.done" test: the leaders of any position
outcome_no_done_test(d, t) ==
    [result |-> winner_loop(d, 1, <<>>, 0), turn |-> done(d, t).turn]

outcome(d, t) ==
    LET dn == done(d, t)
    IN  [result |-> IF dn.result THEN winner_loop(d, 1, <<>>, 0) ELSE <<>>,
         turn |-> dn.turn]

----------------------------------------------------------------------------
(* Reversi: methods *)

outside_board(pos) ==
    pos[1] > side - 1 \/ pos[2] > side - 1 \/ pos[1] < 0 \/ pos[2] < 0

\* Board.get_piece, reached only with an on-board position
get_piece(b, pos) == b[pos]

\* piece_at without the two "< 0" tests: negative indices wrap
piece_at_no_negative_test(b, pos) ==
    IF pos[1] > side - 1 \/ pos[2] > side - 1
    THEN [raised |-> "ValueError", result |-> None]
    ELSE [raised |-> "none",
          result |-> b[<<py_index(pos[1]), py_index(pos[2])>>]]

piece_at(b, pos) ==
    IF outside_board(pos)
    THEN [raised |-> "ValueError", result |-> None]
    ELSE [raised |-> "none", result |-> b[pos]]

\* legal_move whose opening-phase branch tests the row only
legal_move_row_only(b, d, t, pos) ==
    IF outside_board(pos)
    THEN [raised |-> "ValueError", result |-> FALSE]
    ELSE IF get_piece(b, pos) # None
    THEN [raised |-> "none", result |-> FALSE]
    ELSE IF opening_phase(d)
             /\ pos[1] \in odd_smaller_side .. odd_larger_side - 1
    THEN [raised |-> "none", result |-> TRUE]
    ELSE [raised |-> "none", result |-> pos \in available_moves(d, t)]

legal_move(b, d, t, pos) ==
    IF outside_board(pos)
    THEN [raised |-> "ValueError", result |-> FALSE]
    ELSE IF get_piece(b, pos) # None
    THEN [raised |-> "none", result |-> FALSE]
    ELSE IF opening_phase(d)
             /\ pos[1] \in odd_smaller_side .. odd_larger_side - 1
    THEN [raised |-> "none",
          result |-> pos[2] \in odd_smaller_side .. odd_larger_side - 1]
    ELSE [raised |-> "none", result |-> pos \in available_moves(d, t)]

\* helper_eating_function: every eaten location leaves every list, then
\* goes to the player in turn through add_piece.
RECURSIVE add_pieces(_, _, _, _)
add_pieces(b, d, player, locations) ==
    IF locations = {} THEN [board |-> b, loc |-> d]
    ELSE LET l == CHOOSE x \in locations : TRUE
             r == add_piece(b, d, player, l)
         IN  add_pieces(r.board, r.loc, player, locations \ {l})

\* helper_eating_function that takes the eaten pieces off the board
helper_eating_function_removing(b, d, t, eaten_list) ==
    [board |-> [c \in DOMAIN b |-> IF c \in eaten_list THEN None ELSE b[c]],
     loc |-> [i \in DOMAIN d |-> [k |-> d[i].k, v |-> d[i].v \ eaten_list]]]

helper_eating_function(b, d, t, eaten_list) ==
    add_pieces(b,
               [i \in DOMAIN d |-> [k |-> d[i].k, v |-> d[i].v \ eaten_list]],
               t, eaten_list)

\* the cells appended to eat_pieces_list in one direction
RECURSIVE eat_run(_, _, _)
eat_run(cur, dir, enemy_pieces) ==
    IF cur \in enemy_pieces
    THEN {cur} \cup eat_run(Add(cur, dir), dir, enemy_pieces)
    ELSE {}

\* the direction loop without the "elif curr in own_pieces" test: a run
\* is eaten whenever it ends on the board
eat_direction_any_end(s, pos, dir, enemy_pieces, aliased, t0, t) ==
    LET first == Add(pos, dir)
        curr  == walk(first, dir, enemy_pieces)
    IN  IF first \in enemy_pieces /\ in_bounds(curr, side, side)
        THEN helper_eating_function(s.board, s.loc, t,
                                    eat_run(first, dir, enemy_pieces))
        ELSE s

\* One pass of the direction loop. enemy_pieces is the copy taken on entry;
\* own_pieces is the list object of the player in turn on entry (aliased,
\* so it is read in its current state) or a detached empty list.
eat_direction(s, pos, dir, enemy_pieces, aliased, t0, t) ==
    LET first == Add(pos, dir)
        curr  == walk(first, dir, enemy_pieces)
        own_pieces == IF aliased THEN get(s.loc, t0) ELSE {}
    IN  IF first \in enemy_pieces
           /\ in_bounds(curr, side, side)
           /\ curr \in own_pieces
        THEN helper_eating_function(s.board, s.loc, t,
                                    eat_run(first, dir, enemy_pieces))
        ELSE s

\* the direction loop over the first four entries of direction_list only
RECURSIVE eat_directions_first_four(_, _, _, _, _, _, _)
eat_directions_first_four(s, pos, j, enemy_pieces, aliased, t0, t) ==
    IF j > 4 THEN s
    ELSE eat_directions_first_four(
            eat_direction(s, pos, direction_list[j], enemy_pieces,
                          aliased, t0, t),
            pos, j + 1, enemy_pieces, aliased, t0, t)

RECURSIVE eat_directions(_, _, _, _, _, _, _)
eat_directions(s, pos, j, enemy_pieces, aliased, t0, t) ==
    IF j > Len(direction_list) THEN s
    ELSE eat_directions(
            eat_direction(s, pos, direction_list[j], enemy_pieces,
                          aliased, t0, t),
            pos, j + 1, enemy_pieces, aliased, t0, t)

\* the two turn-advance loops at the end of apply_move
RECURSIVE advance_not_last(_, _, _)
advance_not_last(d, t, i) ==
    IF available_moves(d, t) = {} /\ i < players
    THEN advance_not_last(d, IF t + 1 >= players THEN 1 ELSE t + 1, i + 1)
    ELSE t

RECURSIVE advance_last(_, _, _)
advance_last(d, t, i) ==
    IF available_moves(d, t) = {} /\ i < players
    THEN advance_last(d, t + 1, i + 1)
    ELSE t

\* the turn advance without its branch for the last player
advance_turn_no_last_branch(d, t) == advance_not_last(d, t + 1, 0)

advance_turn(d, t) ==
    IF t # players
    THEN advance_not_last(d, t + 1, 0)
    ELSE advance_last(d, 1, 0)

\* apply_move without its "if not self.done" test
apply_move_no_done_test(b, d, t0, pos) ==
    LET aliased       == has_key(d, t0)
        enemy_pieces  == enemy_pieces_of(d, t0)
        placed        == add_piece(b, d, t0, pos)
        eaten         == eat_directions([board |-> placed.board,
                                         loc |-> placed.loc],
                                        pos, 1, enemy_pieces, aliased,
                                        t0, t0)
    IN  IF placed.raised
        THEN [raised |-> "IndexError", board |-> b, loc |-> d, turn |-> t0]
        ELSE [raised |-> "none", board |-> eaten.board, loc |-> eaten.loc,
              turn |-> advance_turn(eaten.loc, t0)]

apply_move(b, d, t0, pos) ==
    LET aliased       == has_key(d, t0)
        enemy_pieces  == enemy_pieces_of(d, t0)
        dn            == done(d, t0)
        placed        == add_piece(b, d, dn.turn, pos)
        eaten         == eat_directions([board |-> placed.board,
                                         loc |-> placed.loc],
                                        pos, 1, enemy_pieces, aliased,
                                        t0, dn.turn)
    IN  IF dn.result
        THEN [raised |-> "none", board |-> b, loc |-> d,
              turn |-> advance_turn(d, dn.turn)]
        ELSE IF placed.raised
        THEN [raised |-> "IndexError", board |-> b, loc |-> d,
              turn |-> dn.turn]
        ELSE [raised |-> "none", board |-> eaten.board, loc |-> eaten.loc,
              turn |-> advance_turn(eaten.loc, dn.turn)]

\* load_game: grid is a sequence of rows, each a sequence of cells.
RECURSIVE load_cells(_, _, _, _)
load_cells(b, d, grid, n) ==
    IF n >= Len(grid) * Len(grid)
    THEN [raised |-> "none", board |-> b, loc |-> d]
    ELSE LET row == n \div Len(grid)
             col == n % Len(grid)
         IN  IF col + 1 > Len(grid[row + 1])
             THEN [raised |-> "IndexError", board |-> b, loc |-> d]
             ELSE LET player_at_loc == grid[row + 1][col + 1]
                  IN  IF player_at_loc = None
                      THEN load_cells(b, d, grid, n + 1)
                      ELSE LET v == CHOOSE x \in player_at_loc : TRUE
                               r == add_piece(b, d, v, <<row, col>>)
                           IN  IF v < 0 \/ v > players
                               THEN [raised |-> "ValueError",
                                     board |-> b, loc |-> d]
                               ELSE load_cells(r.board, r.loc, grid, n + 1)

load_game(b, d, t, new_turn, grid) ==
    IF new_turn > players \/ new_turn <= 0
    THEN [raised |-> "ValueError", board |-> b, loc |-> d, turn |-> t]
    ELSE IF Len(grid) # side
    THEN [raised |-> "ValueError", board |-> b, loc |-> d, turn |-> t]
    ELSE LET r == load_cells(b, d, grid, 0)
         IN  [raised |-> r.raised, board |-> r.board, loc |-> r.loc,
              turn |-> IF r.raised = "none" THEN new_turn ELSE t]

\* deepcopy: a new object with the same grid, piece lists and turn
deepcopy(g) == [g EXCEPT !.obj = g.obj + 1]

\* "for move in moves: new_game.apply_move(move)"; an exception ends the loop
RECURSIVE apply_moves(_, _, _)
apply_moves(g, moves, i) ==
    IF i > Len(moves) THEN [raised |-> "none", game |-> g]
    ELSE LET r == apply_move(g.board, g.loc, g.turn, moves[i])
             g1 == [g EXCEPT !.board = r.board, !.loc = r.loc,
                             !.turn = r.turn]
         IN  IF r.raised # "none"
             THEN [raised |-> r.raised, game |-> g1]
             ELSE apply_moves(g1, moves, i + 1)

\* simulate_moves without the deepcopy: "new_game = self", the moves are
\* applied to the engine itself
simulate_moves_no_copy(b, d, t, moves) ==
    LET self == [obj |-> 0, board |-> b, loc |-> d, turn |-> t]
        r    == apply_moves(self, moves, 1)
    IN  [raised |-> r.raised, self |-> r.game, new_game |-> r.game]

\* simulate_moves: `self` is the engine after the call, `new_game` the
\* engine that is returned.
simulate_moves(b, d, t, moves) ==
    LET self     == [obj |-> 0, board |-> b, loc |-> d, turn |-> t]
        new_game == deepcopy(self)
        r        == apply_moves(new_game, moves, 1)
    IN  [raised |-> r.raised, self |-> self, new_game |-> r.game]

\* __init__ that accepts a board of side 3
Reversi_init_min_side_3(s, n, o) ==
    IF s % 2 # n % 2 THEN [raised |-> "ValueError"]
    ELSE IF s <= 2 THEN [raised |-> "ValueError"]
    ELSE LET smaller_side == s \div 2 - 1
             larger_side  == s \div 2
             b0 == empty_board(s)
             p1 == add_piece(b0, <<>>, 1, <<larger_side, smaller_side>>)
             p2 == add_piece(p1.board, p1.loc, 1, <<smaller_side, larger_side>>)
             p3 == add_piece(p2.board, p2.loc, 2, <<larger_side, larger_side>>)
             p4 == add_piece(p3.board, p3.loc, 2, <<smaller_side, smaller_side>>)
         IN  [raised |-> "none",
              board |-> IF o THEN p4.board ELSE b0,
              loc |-> IF o THEN p4.loc ELSE <<>>,
              turn |-> 1]

\* __init__ with the two players' centre pieces exchanged
Reversi_init_swapped(s, n, o) ==
    IF s % 2 # n % 2 THEN [raised |-> "ValueError"]
    ELSE IF s <= 3 THEN [raised |-> "ValueError"]
    ELSE LET smaller_side == s \div 2 - 1
             larger_side  == s \div 2
             b0 == empty_board(s)
             p1 == add_piece(b0, <<>>, 2, <<larger_side, smaller_side>>)
             p2 == add_piece(p1.board, p1.loc, 2, <<smaller_side, larger_side>>)
             p3 == add_piece(p2.board, p2.loc, 1, <<larger_side, larger_side>>)
             p4 == add_piece(p3.board, p3.loc, 1, <<smaller_side, smaller_side>>)
         IN  [raised |-> "none",
              board |-> IF o THEN p4.board ELSE b0,
              loc |-> IF o THEN p4.loc ELSE <<>>,
              turn |-> 1]

\* Reversi.__init__
Reversi_init(s, n, o) ==
    IF s % 2 # n % 2 THEN [raised |-> "ValueError"]
    ELSE IF s <= 3 THEN [raised |-> "ValueError"]
    ELSE LET smaller_side == s \div 2 - 1
             larger_side  == s \div 2
             b0 == empty_board(s)
             p1 == add_piece(b0, <<>>, 1, <<larger_side, smaller_side>>)
             p2 == add_piece(p1.board, p1.loc, 1, <<smaller_side, larger_side>>)
             p3 == add_piece(p2.board, p2.loc, 2, <<larger_side, larger_side>>)
             p4 == add_piece(p3.board, p3.loc, 2, <<smaller_side, smaller_side>>)
         IN  [raised |-> "none",
              board |-> IF o THEN p4.board ELSE b0,
              loc |-> IF o THEN p4.loc ELSE <<>>,
              turn |-> 1]

----------------------------------------------------------------------------
(* The engine as a state machine *)

\* engines that the game is constructed with: (side, players, othello)
Configs == {<<4, 2, TRUE>>, <<4, 2, FALSE>>, <<5, 3, FALSE>>, <<5, 3, TRUE>>}

\* a board snapshot written with 0 for "no piece"
grid_of(m) ==
    [r \in DOMAIN m |->
        [c \in DOMAIN m[r] |-> IF m[r][c] = 0 THEN None ELSE {m[r][c]}]]

\* saved games handed to load_game; each is a position that legal play
\* reaches from the constructor of the engine it is loaded into
Snapshots ==
    { [side |-> 5, players |-> 3, turn |-> 1,
       grid |-> grid_of(<< <<0, 0, 0, 0, 0>>,
                           <<0, 1, 3, 2, 0>>,
                           <<0, 1, 3, 2, 0>>,
                           <<0, 1, 1, 1, 0>>,
                           <<0, 0, 0, 0, 0>> >>)],
      [side |-> 5, players |-> 3, turn |-> 3,
       grid |-> grid_of(<< <<0, 2, 2, 3, 1>>,
                           <<1, 2, 2, 1, 1>>,
                           <<1, 3, 2, 3, 0>>,
                           <<1, 1, 1, 2, 3>>,
                           <<0, 2, 0, 0, 2>> >>)],
      [side |-> 4, players |-> 2, turn |-> 1,
       grid |-> grid_of(<< <<2, 0, 0, 1>>,
                           <<1, 2, 1, 1>>,
                           <<1, 1, 2, 1>>,
                           <<0, 2, 0, 2>> >>)],
      [side |-> 4, players |-> 2, turn |-> 1,
       grid |-> grid_of(<< <<1, 0, 2, 2>>,
                           <<0, 1, 2, 2>>,
                           <<1, 1, 2, 2>>,
                           <<1, 2, 0, 0>> >>)],
      [side |-> 4, players |-> 2, turn |-> 2,
       grid |-> grid_of(<< <<0, 2, 2, 2>>,
                           <<1, 2, 2, 2>>,
                           <<1, 1, 2, 2>>,
                           <<1, 1, 1, 2>> >>)] }

\* positions handed to the position-taking calls: the board and one ring
\* of positions around it
Positions == (-1 .. side) \X (-1 .. side)

NoPos == <<>>

NoObj == -1

\* no engine is held
NoSim == [obj |-> NoObj, board |-> <<>>, loc |-> <<>>, turn |-> 0,
          replaying |-> FALSE, todo |-> <<>>, moves |-> 0]

\* sim_game after a call on the engine that leaves the engine with grid b,
\* lists d and turn t: when sim_game is the engine itself it shows what the
\* call did; the caller is no longer replaying the simulated list
held(b, d, t) ==
    [sim_game EXCEPT !.board = IF sim_game.obj = 0 THEN b ELSE @,
                     !.loc = IF sim_game.obj = 0 THEN d ELSE @,
                     !.turn = IF sim_game.obj = 0 THEN t ELSE @,
                     !.replaying = FALSE,
                     !.todo = <<>>]

Init ==
    \E cfg \in Configs :
        LET r == Reversi_init(cfg[1], cfg[2], cfg[3])
        IN  /\ side = cfg[1]
            /\ players = cfg[2]
            /\ othello = cfg[3]
            /\ r.raised = "none"
            /\ board = r.board
            /\ location_of_pieces = r.loc
            /\ turn = r.turn
            /\ op = [name |-> "init", pos |-> NoPos, by |-> 0,
                     raised |-> "none",
                     result |-> None,
                     flips |-> 0]
            /\ depth = 0
            /\ sim_game = NoSim

\* how many occupied cells of b0 have another owner in b1
flipped(b0, b1) ==
    Cardinality({c \in DOMAIN b0 : b0[c] # None /\ b1[c] # b0[c]})

ApplyMove(pos) ==
    LET r == apply_move(board, location_of_pieces, turn, pos)
    IN  /\ board' = r.board
        /\ location_of_pieces' = r.loc
        /\ turn' = r.turn
        /\ op' = [name |-> "apply_move", pos |-> pos, by |-> turn,
                  raised |-> r.raised,
                  result |-> None,
                  flips |-> flipped(board, r.board)]
        /\ depth' = depth + 1
        /\ sim_game' =
              IF /\ sim_game.replaying
                 /\ sim_game.todo # <<>>
                 /\ pos = Head(sim_game.todo)
              THEN [held(board', location_of_pieces', turn') EXCEPT
                      !.replaying = TRUE,
                      !.todo = Tail(sim_game.todo)]
              ELSE held(board', location_of_pieces', turn')
        /\ UNCHANGED <<side, players, othello>>

Done ==
    LET r == done(location_of_pieces, turn)
    IN  /\ turn' = r.turn
        /\ op' = [name |-> "done", pos |-> NoPos, by |-> turn,
                  raised |-> "none",
                  result |-> r.result,
                  flips |-> 0]
        /\ sim_game' = held(board, location_of_pieces, turn')
        /\ UNCHANGED <<side, players, othello, board, location_of_pieces,
                       depth>>

Outcome ==
    LET r == outcome(location_of_pieces, turn)
    IN  /\ turn' = r.turn
        /\ op' = [name |-> "outcome", pos |-> NoPos, by |-> turn,
                  raised |-> "none",
                  result |-> r.result,
                  flips |-> 0]
        /\ sim_game' = held(board, location_of_pieces, turn')
        /\ UNCHANGED <<side, players, othello, board, location_of_pieces,
                       depth>>

\* available_moves that collects all_pieces in the first piece list of the
\* dict instead of a new list
AvailableMoves_shared_list ==
    /\ op' = [name |-> "available_moves", pos |-> NoPos, by |-> turn,
              raised |-> "none",
              result |-> available_moves(location_of_pieces, turn),
              flips |-> 0]
    /\ location_of_pieces' =
          IF location_of_pieces = <<>> THEN location_of_pieces
          ELSE [location_of_pieces EXCEPT
                  ![1].v = all_pieces(location_of_pieces)]
    /\ sim_game' = held(board, location_of_pieces', turn)
    /\ UNCHANGED <<side, players, othello, board, turn, depth>>

AvailableMoves ==
    /\ op' = [name |-> "available_moves", pos |-> NoPos, by |-> turn,
              raised |-> "none",
              result |-> available_moves(location_of_pieces, turn),
              flips |-> 0]
    /\ sim_game' = held(board, location_of_pieces, turn)
    /\ UNCHANGED <<side, players, othello, board, location_of_pieces, turn,
                   depth>>

LegalMove(pos) ==
    LET r == legal_move(board, location_of_pieces, turn, pos)
    IN  /\ op' = [name |-> "legal_move", pos |-> pos, by |-> turn,
                  raised |-> r.raised,
                  result |-> r.result,
                  flips |-> 0]
        /\ sim_game' = held(board, location_of_pieces, turn)
        /\ UNCHANGED <<side, players, othello, board, location_of_pieces,
                       turn, depth>>

PieceAt(pos) ==
    LET r == piece_at(board, pos)
    IN  /\ op' = [name |-> "piece_at", pos |-> pos, by |-> turn,
                  raised |-> r.raised,
                  result |-> r.result,
                  flips |-> 0]
        /\ sim_game' = held(board, location_of_pieces, turn)
        /\ UNCHANGED <<side, players, othello, board, location_of_pieces,
                       turn, depth>>

LoadGame(new_turn, grid) ==
    LET r == load_game(board, location_of_pieces, turn, new_turn, grid)
    IN  /\ board' = r.board
        /\ location_of_pieces' = r.loc
        /\ turn' = r.turn
        /\ op' = [name |-> "load_game", pos |-> NoPos, by |-> turn,
                  raised |-> r.raised,
                  result |-> None,
                  flips |-> 0,
                  new_turn |-> new_turn,
                  grid |-> grid]
        /\ sim_game' = held(board', location_of_pieces', turn')
        /\ UNCHANGED <<side, players, othello, depth>>

SimulateMoves(moves) ==
    LET r == simulate_moves(board, location_of_pieces, turn, moves)
    IN  /\ board' = r.self.board
        /\ location_of_pieces' = r.self.loc
        /\ turn' = r.self.turn
        /\ op' = [name |-> "simulate_moves", pos |-> moves, by |-> turn,
                  raised |-> r.raised,
                  result |-> r.new_game,
                  flips |-> 0]
        /\ sim_game' =
              IF op'.raised # "none" THEN NoSim
              ELSE [obj |-> op'.result.obj, board |-> op'.result.board,
                    loc |-> op'.result.loc, turn |-> op'.result.turn,
                    replaying |-> TRUE, todo |-> moves,
                    moves |-> Len(moves)]
        /\ UNCHANGED <<side, players, othello, depth>>

\* apply_move called on the engine simulate_moves returned
SimGameApplyMove(pos) ==
    LET r == apply_move(sim_game.board, sim_game.loc, sim_game.turn, pos)
    IN  /\ sim_game' = [sim_game EXCEPT !.board = r.board,
                                        !.loc = r.loc,
                                        !.turn = r.turn,
                                        !.replaying = FALSE,
                                        !.todo = <<>>,
                                        !.moves = @ + 1]
        /\ board' = IF sim_game.obj = 0 THEN sim_game'.board ELSE board
        /\ location_of_pieces' =
              IF sim_game.obj = 0 THEN sim_game'.loc ELSE location_of_pieces
        /\ turn' = IF sim_game.obj = 0 THEN sim_game'.turn ELSE turn
        /\ op' = [name |-> "sim_game.apply_move", pos |-> pos,
                  by |-> sim_game.turn,
                  raised |-> r.raised,
                  result |-> None,
                  flips |-> flipped(sim_game.board, sim_game'.board)]
        /\ UNCHANGED <<side, players, othello, depth>>

\* --- the callers ---

\* a caller plays a move it took from available_moves
PlayLegal ==
    /\ depth < MaxMoves
    /\ \E pos \in available_moves(location_of_pieces, turn) : ApplyMove(pos)

CallDone == turn <= MaxTurn /\ Done

CallOutcome == turn <= MaxTurn /\ Outcome

\* a saved game is loaded into an engine that was just constructed empty
LoadSaved ==
    /\ op.name = "init"
    /\ ~othello
    /\ \E s \in Snapshots :
          /\ s.side = side
          /\ s.players = players
          /\ LoadGame(s.turn, s.grid)

Next ==
    \/ PlayLegal
    \/ CallDone
    \/ CallOutcome
    \/ AvailableMoves
    \/ LoadSaved

Spec == Init /\ [][Next]_vars

\* --- callers that also query positions ---

PlayLegalQ ==
    /\ depth < MaxQueryMoves
    /\ \E pos \in available_moves(location_of_pieces, turn) : ApplyMove(pos)

CallLegalMove == \E pos \in Positions : LegalMove(pos)

CallPieceAt == \E pos \in Positions : PieceAt(pos)

NextQ ==
    \/ PlayLegalQ
    \/ CallDone
    \/ AvailableMoves
    \/ LoadSaved
    \/ CallLegalMove
    \/ CallPieceAt
    \/ CallOutcome

SpecQ == Init /\ [][NextQ]_vars

\* --- callers that also play positions outside the board ---

PlayLegalO ==
    /\ depth < MaxOobMoves
    /\ \E pos \in available_moves(location_of_pieces, turn) : ApplyMove(pos)

PlayOutside ==
    /\ depth < MaxOobMoves
    /\ \E pos \in Positions \ Cells : ApplyMove(pos)

NextOOB ==
    \/ PlayLegalO
    \/ PlayOutside
    \/ CallDone
    \/ LoadSaved

SpecOOB == Init /\ [][NextOOB]_vars

\* --- callers that go on after the game is over ---

PlayLegalE ==
    /\ depth < MaxEndMoves
    /\ \E pos \in available_moves(location_of_pieces, turn) : ApplyMove(pos)

\* apply_move with any cell of the board when no player has a move
PlayOnFinished ==
    /\ depth < MaxEndMoves
    /\ \A p \in 1 .. players : available_moves(location_of_pieces, p) = {}
    /\ \E pos \in Cells : ApplyMove(pos)

NextEnd ==
    \/ PlayLegalE
    \/ PlayOnFinished
    \/ CallDone
    \/ LoadSaved

SpecEnd == Init /\ [][NextEnd]_vars

\* --- callers that load any snapshot into any engine ---

EmptyGrid(rows, cols) == [r \in 1 .. rows |-> [c \in 1 .. cols |-> None]]

\* grid[row][col] = v
Put(grid, row, col, v) == [grid EXCEPT ![row + 1][col + 1] = {v}]

\* the (turn, grid) arguments handed to load_game: well-formed snapshots
\* (the empty grid, a two-piece grid, the saved games), a turn below and
\* above the range, a grid with one row less and one row more, a short and
\* a long row, and the cell values 0, players + 1 and -1
LoadInputs ==
    LET h    == side \div 2
        e    == EmptyGrid(side, side)
        few  == Put(Put(e, 0, 0, 1), h, h - 1, 2)
        last == side - 1
    IN  { [turn |-> 1, grid |-> e],
          [turn |-> 2, grid |-> few],
          [turn |-> 0, grid |-> few],
          [turn |-> players + 1, grid |-> few],
          [turn |-> 1, grid |-> EmptyGrid(side - 1, side)],
          [turn |-> 1, grid |-> EmptyGrid(side + 1, side)],
          [turn |-> 1,
           grid |-> [few EXCEPT ![side] = SubSeq(few[side], 1, side - 1)]],
          [turn |-> 1, grid |-> [few EXCEPT ![1] = Append(few[1], {2})]],
          [turn |-> 1, grid |-> Put(few, 0, 1, 0)],
          [turn |-> 1, grid |-> Put(few, last, last, players + 1)],
          [turn |-> 1, grid |-> Put(few, last, last, -1)] }
        \cup {[turn |-> s.turn, grid |-> s.grid] :
                 s \in {x \in Snapshots :
                          x.side = side /\ x.players = players}}

\* a snapshot is loaded into a new engine or after a move
LoadAny ==
    /\ op.name # "load_game"
    /\ \E s \in LoadInputs : LoadGame(s.turn, s.grid)

PlayLegalL ==
    /\ depth < MaxLoadMoves
    /\ \E pos \in available_moves(location_of_pieces, turn) : ApplyMove(pos)

NextLoad ==
    \/ LoadAny
    \/ PlayLegalL

SpecLoad == Init /\ [][NextLoad]_vars

\* --- construction with any arguments ---

\* a constructor that raises leaves no engine behind
NoEngine == op.name = "init" /\ op.raised # "none"

InitNew ==
    \E s \in 1 .. MaxSide, n \in 1 .. MaxPlayers, o \in BOOLEAN :
        LET r == Reversi_init(s, n, o)
        IN  /\ side = s
            /\ players = n
            /\ othello = o
            /\ board = IF r.raised = "none" THEN r.board ELSE <<>>
            /\ location_of_pieces = IF r.raised = "none" THEN r.loc ELSE <<>>
            /\ turn = IF r.raised = "none" THEN r.turn ELSE 0
            /\ op = [name |-> "init", pos |-> NoPos, by |-> 0,
                     raised |-> r.raised,
                     result |-> None,
                     flips |-> 0]
            /\ depth = 0
            /\ sim_game = NoSim

PlayLegalN ==
    /\ ~NoEngine
    /\ depth < MaxNewMoves
    /\ \E pos \in available_moves(location_of_pieces, turn) : ApplyMove(pos)

CallAvailableMoves == ~NoEngine /\ AvailableMoves

NextNew ==
    \/ PlayLegalN
    \/ CallAvailableMoves

SpecNew == InitNew /\ [][NextNew]_vars

\* --- callers that also simulate moves ---

\* the lists of at most n moves in which every move is an available move
\* of the position the moves before it lead to
RECURSIVE LegalSequences(_, _)
LegalSequences(g, n) ==
    {<<>>} \cup
    IF n = 0 THEN {}
    ELSE UNION {LET r == apply_move(g.board, g.loc, g.turn, m)
                IN  {<<m>> \o rest :
                        rest \in LegalSequences([board |-> r.board,
                                                 loc |-> r.loc,
                                                 turn |-> r.turn], n - 1)} :
                   m \in available_moves(g.loc, g.turn)}

PlayLegalS ==
    /\ depth < MaxSimDepth
    /\ sim_game.obj = NoObj
    /\ \E pos \in available_moves(location_of_pieces, turn) : ApplyMove(pos)

\* a bot simulates from the position it is asked to move in; the log of
\* the call before is no input of simulate_moves
SimulateLegal ==
    /\ op.name # "simulate_moves"
    /\ sim_game.obj = NoObj
    /\ \E moves \in LegalSequences([board |-> board,
                                    loc |-> location_of_pieces,
                                    turn |-> turn], MaxSimMoves) :
          SimulateMoves(moves)

\* the bot returns: its local sim_game is gone
DropSimGame ==
    /\ sim_game.obj # NoObj
    /\ sim_game' = NoSim
    /\ UNCHANGED <<side, players, othello, board, location_of_pieces, turn,
                   op, depth>>

\* the game loop tests done between two bot calls
CallDoneS == sim_game.obj = NoObj /\ CallDone

NextSim ==
    \/ PlayLegalS
    \/ SimulateLegal
    \/ DropSimGame
    \/ CallDoneS
    \/ LoadSaved

SpecSim == Init /\ [][NextSim]_vars

\* --- callers that make the simulated moves on the engine as well ---

PlayLegalR ==
    /\ depth < MaxReplayMoves
    /\ sim_game.obj = NoObj
    /\ \E pos \in available_moves(location_of_pieces, turn) : ApplyMove(pos)

\* a caller simulates a list of moves it can still make on the engine
SimulateReplay ==
    /\ op.name # "simulate_moves"
    /\ sim_game.obj = NoObj
    /\ depth <= MaxReplayMoves
    /\ \E moves \in LegalSequences([board |-> board,
                                    loc |-> location_of_pieces,
                                    turn |-> turn], MaxReplayMoves - depth) :
          SimulateMoves(moves)

\* the caller makes the next move of the list it simulated on the engine
ReplayMove ==
    /\ sim_game.replaying
    /\ sim_game.todo # <<>>
    /\ ApplyMove(Head(sim_game.todo))

\* the caller plays on in the engine it got back
PlayOnSimGame ==
    /\ sim_game.obj # NoObj
    /\ sim_game.moves + depth < MaxReplayMoves
    /\ \E pos \in available_moves(sim_game.loc, sim_game.turn) :
          SimGameApplyMove(pos)

NextReplay ==
    \/ PlayLegalR
    \/ SimulateReplay
    \/ ReplayMove
    \/ PlayOnSimGame
    \/ DropSimGame
    \/ LoadSaved

SpecReplay == Init /\ [][NextReplay]_vars

----------------------------------------------------------------------------
(* The rules of the game, read off the grid alone *)

Dirs == {d \in (-1 .. 1) \X (-1 .. 1) : d # <<0, 0>>}

Step(c, d, k) == <<c[1] + k * d[1], c[2] + k * d[2]>>

OwnedBy(b, p) == {c \in Cells : b[c] = {p}}

Occupied(b) == {c \in Cells : b[c] # None}

OpponentOf(b, c, p) == c \in Cells /\ b[c] # None /\ b[c] # {p}

\* the k cells after c in direction d are on the board and all belong to
\* players other than p
OpponentRun(b, c, d, k, p) ==
    \A j \in 1 .. k : OpponentOf(b, Step(c, d, j), p)

\* empty cells reached from a piece of p across one or more opponent cells
Flanking(b, p) ==
    {e \in {Step(x[1], x[2], x[3] + 1) :
              x \in {y \in OwnedBy(b, p) \X Dirs \X (1 .. side) :
                        OpponentRun(b, y[1], y[2], y[3], p)}} :
        e \in Cells /\ b[e] = None}

\* rows and columns in [side/2 - players/2, side/2 + players/2)
CentralRegion ==
    {c \in Cells : /\ 2 * c[1] >= side - players /\ 2 * c[1] < side + players
                   /\ 2 * c[2] >= side - players /\ 2 * c[2] < side + players}

InOpening(b) == ~othello /\ Cardinality(Occupied(b)) < players * players

RuleMoves(b, p) ==
    IF InOpening(b) THEN {c \in CentralRegion : b[c] = None}
    ELSE Flanking(b, p)

HasMove(b, p) == RuleMoves(b, p) # {}

GameOver(b) == \A p \in 1 .. players : ~HasMove(b, p)

\* the k-th player after p in cyclic order
PlayerAfter(p, k) == ((p - 1 + k) % players) + 1

FirstToMove(b, p) ==
    PlayerAfter(p, CHOOSE k \in 1 .. players :
                      /\ HasMove(b, PlayerAfter(p, k))
                      /\ \A j \in 1 .. k - 1 : ~HasMove(b, PlayerAfter(p, j)))

\* cells of the opponent runs that start next to pos and end on a piece of p
Captured(b, pos, p) ==
    UNION {{Step(pos, x[1], j) : j \in 1 .. x[2]} :
             x \in {y \in Dirs \X (1 .. side) :
                       /\ OpponentRun(b, pos, y[1], y[2], p)
                       /\ Step(pos, y[1], y[2] + 1) \in Cells
                       /\ b[Step(pos, y[1], y[2] + 1)] = {p}}}

AfterMove(b, pos, p) ==
    LET taken == Captured(b, pos, p)
    IN  [c \in Cells |-> IF c = pos \/ c \in taken THEN {p} ELSE b[c]]

PieceCount(b, p) == Cardinality(OwnedBy(b, p))

Leaders(b) ==
    {p \in 1 .. players :
        \A q \in 1 .. players : PieceCount(b, q) <= PieceCount(b, p)}

Elements(seq) == {seq[i] : i \in DOMAIN seq}

----------------------------------------------------------------------------
(* Claims *)

\* C1: when apply_move is called by player p with a legal move on a game
\* that is not over, and some player can move on the resulting board, the
\* new turn is the first player after p in cyclic order who has a move.
C1_FirstPlayerWithMove ==
    [][(/\ op'.name = "apply_move"
        /\ op'.raised = "none"
        /\ op'.pos \in RuleMoves(board, turn)
        /\ ~GameOver(board'))
       => turn' = FirstToMove(board', turn)]_vars

\* C2: right after apply_move returns, either no player has a move or the
\* player in turn has one.
C2_TurnSkipInvariant ==
    (op.name = "apply_move" /\ op.raised = "none")
        => (GameOver(board) \/ HasMove(board, turn))

\* C3: a legal move at pos gives pos to the mover, flips exactly the
\* opponent runs that start next to pos and end on a piece of the mover,
\* and leaves every other cell as it was.
C3_CaptureCorrect ==
    [][(/\ op'.name = "apply_move"
        /\ op'.pos \in RuleMoves(board, turn))
       => board' = AfterMove(board, op'.pos, turn)]_vars

C3_Witness ==
    /\ op.name = "apply_move"
    /\ op.raised = "none"
    /\ op.flips >= 3
    /\ board[op.pos] = {op.by}

\* C4: outside the opening phase available_moves returns exactly the empty
\* cells that some piece of the player in turn reaches across one or more
\* opponent cells.
C4_NormalMoves ==
    (op.name = "available_moves" /\ ~InOpening(board))
        => op.result = Flanking(board, turn)

C4_Witness ==
    /\ op.name = "available_moves"
    /\ ~InOpening(board)
    /\ players = 3
    /\ Cardinality(op.result) >= 2

\* C5: in a non-Othello game available_moves returns exactly the empty cells
\* of the central region while fewer than players^2 cells are occupied, and
\* follows the flanking rule once the region is full.
C5_OpeningMoves ==
    (op.name = "available_moves" /\ ~othello)
        => /\ Cardinality(Occupied(board)) < players * players
                => op.result = {c \in CentralRegion : board[c] = None}
           /\ CentralRegion \subseteq Occupied(board)
                => op.result = Flanking(board, turn)

C5_Witness ==
    /\ op.name = "available_moves"
    /\ ~othello
    /\ players = 3
    /\ Cardinality(Occupied(board)) \in 1 .. players * players - 1
    /\ op.result = CentralRegion \ Occupied(board)
    /\ op.result # {}

\* C6: for an on-board position legal_move returns true exactly when the
\* position is in available_moves of the player in turn: an empty cell of
\* the central region in the opening phase, an empty flanking cell after it.
C6_LegalIffAvailable ==
    (op.name = "legal_move" /\ op.pos \in Cells)
        => /\ op.result = (op.pos \in available_moves(location_of_pieces,
                                                      turn))
           /\ op.result = (op.pos \in RuleMoves(board, turn))

C6_Witness ==
    /\ op.name = "legal_move"
    /\ op.result = TRUE
    /\ ~InOpening(board)
    /\ depth > 0

\* C7: apply_move with a coordinate outside [0, side) raises ValueError and
\* leaves the grid, the piece lists and the turn as they were.
C7_OutOfBoundsRejected ==
    [][(op'.name = "apply_move" /\ op'.pos \notin Cells)
       => /\ op'.raised = "ValueError"
          /\ board' = board
          /\ location_of_pieces' = location_of_pieces
          /\ turn' = turn]_vars

\* C8: legal_move and piece_at raise the out-of-bounds error exactly for the
\* positions outside the board, piece_at returns the grid cell of an
\* on-board position, and neither call changes the grid or the turn.
C8_QueriesBoundsChecked ==
    /\ [](op.name \in {"legal_move", "piece_at"}
            => /\ op.raised = IF op.pos \in Cells THEN "none"
                              ELSE "ValueError"
               /\ (op.name = "piece_at" /\ op.pos \in Cells)
                    => op.result = board[op.pos])
    /\ [][op'.name \in {"legal_move", "piece_at"}
            => (board' = board /\ turn' = turn)]_vars

C8_Witness ==
    /\ op.name = "piece_at"
    /\ op.raised = "ValueError"
    /\ op.pos[1] < 0
    /\ Occupied(board) # {}

\* C9: done returns true exactly when no player 1..players has a move on
\* the current board.
C9_DoneIffNoMoves ==
    op.name = "done" => op.result = GameOver(board)

C9_Witness ==
    /\ op.name = "done"
    /\ op.result = TRUE
    /\ Occupied(board) # Cells

\* C10: when the game is over, outcome lists exactly the players whose
\* piece count is the maximum over all players, each once.
C10_OutcomeLeaders ==
    (op.name = "outcome" /\ GameOver(board))
        => /\ Elements(op.result) = Leaders(board)
           /\ Len(op.result) = Cardinality(Leaders(board))

C10_Witness ==
    /\ op.name = "outcome"
    /\ GameOver(board)
    /\ Len(op.result) = 2
    /\ PieceCount(board, 1) = 8

\* C11: outcome returns the empty list whenever some player still has a
\* move, and a non-empty list whenever no player has a move and the board
\* holds at least one piece.
C11_OutcomeEmptyUnlessDone ==
    op.name = "outcome"
        => /\ ~GameOver(board) => op.result = <<>>
           /\ (GameOver(board) /\ Occupied(board) # {}) => op.result # <<>>

C11_Witness ==
    /\ op.name = "outcome"
    /\ ~GameOver(board)
    /\ Occupied(board) # {}
    /\ depth > 0
    /\ op.result = <<>>
\* C12: a simulate_moves call with a list of legal moves leaves the grid,
\* the per-player piece lists and the turn of the engine it is called on as
\* they were, and with them the values of done and outcome.
C12_SimulatePure ==
    [][op'.name = "simulate_moves"
       => /\ board' = board
          /\ location_of_pieces' = location_of_pieces
          /\ turn' = turn
          /\ done(location_of_pieces', turn').result
                = done(location_of_pieces, turn).result
          /\ outcome(location_of_pieces', turn').result
                = outcome(location_of_pieces, turn).result]_vars

C12_Witness ==
    /\ op.name = "simulate_moves"
    /\ Len(op.pos) = 2
    /\ op.raised = "none"
    /\ depth > 0
    /\ flipped(board, op.result.board) >= 2
    /\ op.result.turn # turn
\* the (row, col) index pairs of a grid argument, rows of any length
InputCells(grid) ==
    UNION {{<<r, c>> : c \in DOMAIN grid[r]} : r \in DOMAIN grid}

\* some occupied cell of the grid holds a value outside 1 .. players
BadValue(grid) ==
    \E x \in InputCells(grid) :
        \E v \in grid[x[1]][x[2]] : v \notin 1 .. players

\* the grid is not side rows of side cells each
BadShape(grid) ==
    Len(grid) # side \/ \E r \in DOMAIN grid : Len(grid[r]) # side

LoadReturned == op.name = "load_game" /\ op.raised = "none"

\* the board the constructor is to leave: empty, or the four centre pieces
CentreLayout ==
    LET h == side \div 2
    IN  [c \in Cells |->
            IF othello /\ c \in {<<h, h - 1>>, <<h - 1, h>>} THEN {1}
            ELSE IF othello /\ c \in {<<h, h>>, <<h - 1, h - 1>>} THEN {2}
            ELSE None]

\* C13: Reversi(side, players, othello) raises the validation error when
\* side and players differ in parity or side < 4; otherwise it succeeds with
\* turn 1 and an empty board, or, with othello, exactly the four centre
\* pieces: player 1 at (h, h-1) and (h-1, h), player 2 at (h, h) and
\* (h-1, h-1), h = side/2.
C13_Construction ==
    op.name = "init"
        => IF side % 2 # players % 2 \/ side < 4
           THEN op.raised = "ValueError"
           ELSE /\ op.raised = "none"
                /\ turn = 1
                /\ board = CentreLayout

C13_Witness ==
    /\ op.name = "init"
    /\ op.raised = "none"
    /\ side = 7
    /\ players = 3
    /\ othello
    /\ board[<<3, 2>>] = {1}
    /\ board[<<2, 2>>] = {2}
    /\ Cardinality(Occupied(board)) = 4
\* C14: load_game raises the validation error whenever an occupied cell of
\* its grid holds a value outside 1 .. players, the value 0 included.
C14_BadValueRejected ==
    (op.name = "load_game" /\ BadValue(op.grid))
        => op.raised = "ValueError"

\* C15: load_game raises the validation error whenever its turn is outside
\* 1 .. players or its grid is not side rows of side cells each.
C15_BadHeaderRejected ==
    (op.name = "load_game"
       /\ (op.new_turn \notin 1 .. players \/ BadShape(op.grid)))
        => op.raised = "ValueError"

\* C16: after a load_game call that returned, turn is the turn passed in and
\* every occupied cell of the grid passed in is a cell of the board that
\* holds the same owner.
C16_LoadRoundTrip ==
    LoadReturned
        => /\ turn = op.new_turn
           /\ \A x \in InputCells(op.grid) :
                 op.grid[x[1]][x[2]] # None
                    => /\ <<x[1] - 1, x[2] - 1>> \in Cells
                       /\ board[<<x[1] - 1, x[2] - 1>>] = op.grid[x[1]][x[2]]

\* C17: after a load_game call that returned, whatever the state before,
\* the board equals the grid passed in cell for cell: a cell that is empty
\* in the grid is empty on the board.
C17_LoadReplaces ==
    LoadReturned
        => \A c \in Cells : board[c] = op.grid[c[1] + 1][c[2] + 1]

\* a game that was just constructed with the Othello layout for two players
FreshOthello == othello /\ players = 2 /\ side % 2 = 0

\* C18: in a freshly constructed 2-player Othello-layout game on an even
\* side >= 4, available_moves for player 1 is exactly the four cells
\* (h, h+1), (h-2, h-1), (h-1, h-2), (h+1, h) with h = side/2, which is
\* {(4,5), (2,3), (3,2), (5,4)} on the 8x8 board.
C18_InitialMoves ==
    (op.name = "available_moves" /\ depth = 0 /\ FreshOthello)
        => LET h == side \div 2
           IN  /\ op.by = 1
               /\ op.result = {<<h, h + 1>>, <<h - 2, h - 1>>,
                               <<h - 1, h - 2>>, <<h + 1, h>>}
               /\ side = 8 => op.result = {<<4, 5>>, <<2, 3>>,
                                           <<3, 2>>, <<5, 4>>}

C18_Witness ==
    /\ op.name = "available_moves"
    /\ depth = 0
    /\ FreshOthello
    /\ side = 8
    /\ Cardinality(op.result) = 4
    /\ <<4, 5>> \in op.result

\* the first move of a new 8x8, 2-player, Othello-layout game has been
\* applied by player 1
FirstMoveDone ==
    /\ op.name = "apply_move"
    /\ op.raised = "none"
    /\ depth = 1
    /\ FreshOthello
    /\ side = 8
    /\ op.by = 1

\* C19 as stated: after player 1 applies any of its available moves in a
\* new 8x8, 2-player, Othello-layout game, exactly 3 pieces belong to
\* player 1 and turn is 2.
C19_FirstMoveThreePieces ==
    FirstMoveDone => (PieceCount(board, 1) = 3 /\ turn = 2)

\* C19 amended: after that move exactly 4 pieces belong to player 1 (the
\* new piece, the one flipped piece and its two initial pieces), 1 piece
\* belongs to player 2, and turn is 2.
C19_FirstMoveFourPieces ==
    FirstMoveDone
        => /\ PieceCount(board, 1) = 4
           /\ Cardinality(own_pieces_of(location_of_pieces, 1)) = 4
           /\ op.flips = 1
           /\ board[op.pos] = {1}
           /\ PieceCount(board, 2) = 1
           /\ turn = 2

C19_Witness ==
    /\ FirstMoveDone
    /\ op.pos = <<2, 3>>
    /\ board[<<3, 3>>] = {1}
    /\ turn = 2
\* every piece list holds exactly the cells at which the grid holds its
\* player, and the lists together are as long as the grid has pieces
StoreConsistent ==
    /\ \A p \in 1 .. players :
          own_pieces_of(location_of_pieces, p) = OwnedBy(board, p)
    /\ \A i \in DOMAIN location_of_pieces :
          location_of_pieces[i].v
             = {c \in Cells : board[c] = {location_of_pieces[i].k}}
    /\ piece_count(location_of_pieces) = Cardinality(Occupied(board))

\* C20: the store is consistent after construction, and every legal
\* apply_move and every load_game call that returns takes a consistent
\* store to a consistent store: a cell is in player P's list exactly when
\* the grid holds P there, and the list lengths add up to the number of
\* occupied cells.
C20_OneOwnerPerCell ==
    /\ [](op.name = "init" => StoreConsistent)
    /\ [][(/\ StoreConsistent
           /\ \/ op'.name = "apply_move"
              \/ op'.name = "load_game" /\ op'.raised = "none")
          => StoreConsistent']_vars

\* C21: a load_game call that raises the validation error leaves the grid,
\* the piece lists and the turn exactly as they were before the call.
C21_LoadFailsAtomically ==
    [][(op'.name = "load_game" /\ op'.raised = "ValueError")
       => /\ board' = board
          /\ location_of_pieces' = location_of_pieces
          /\ turn' = turn]_vars

\* C24: while some player has a move, turn is in 1 .. players; it is out
\* of that range only in states where no player has a move.
C24_TurnRange ==
    ~GameOver(board) => turn \in 1 .. players

C24_Witness ==
    /\ op.name = "apply_move"
    /\ op.by = players
    /\ turn = players
    /\ ~GameOver(board)
    /\ players = 2

\* the first player in the cyclic order p, p+1, ... who has a move
FirstFrom(b, p) ==
    PlayerAfter(p, CHOOSE k \in 0 .. players - 1 :
                      /\ HasMove(b, PlayerAfter(p, k))
                      /\ \A j \in 0 .. k - 1 : ~HasMove(b, PlayerAfter(p, j)))

\* C25: a done call made with turn in 1 .. players that returns false
\* leaves turn at the first player, from the player in turn on in cyclic
\* order, who has a move (so turn stays when that player has one); and a
\* done call right after a done call returns the same value and leaves turn
\* as it is.
C25_DoneFixesTurn ==
    /\ [][(op'.name = "done" /\ turn \in 1 .. players
                             /\ op'.result = FALSE)
          => turn' = FirstFrom(board, turn)]_vars
    /\ [][(op.name = "done" /\ op.by \in 1 .. players
                            /\ op'.name = "done")
          => (op'.result = op.result /\ turn' = turn)]_vars

C25_Witness ==
    /\ op.name = "done"
    /\ op.result = FALSE
    /\ op.by \in 1 .. players
    /\ turn # op.by
    /\ HasMove(board, turn)
    /\ ~HasMove(board, op.by)

\* C27: every move taken from available_moves fills exactly one more cell
\* and empties none, a full board is a finished game, and when done returns
\* false the player in turn has a move to take; so a game that starts with
\* k pieces is over after at most side * side - k moves.
C27_EveryMoveFillsOneCell ==
    /\ [][(op'.name = "apply_move"
             /\ op'.pos \in available_moves(location_of_pieces, turn))
          => /\ Cardinality(Occupied(board')) = Cardinality(Occupied(board)) + 1
             /\ Occupied(board) \subseteq Occupied(board')]_vars
    /\ [](Occupied(board) = Cells
            => (GameOver(board) /\ done(location_of_pieces, turn).result))
    /\ [](op.name = "done"
            => (op.result = TRUE
                  \/ available_moves(location_of_pieces, turn) # {}))

C27_Witness ==
    /\ op.name = "apply_move"
    /\ op.flips >= 1
    /\ Occupied(board) = Cells
    /\ depth >= 2

\* C28: outside the opening phase, a move taken from available_moves flips
\* at least one cell: the mover gains at least two pieces and the other
\* players together lose at least one.
C28_LegalMovesCapture ==
    [][(/\ op'.name = "apply_move"
        /\ ~InOpening(board)
        /\ op'.pos \in available_moves(location_of_pieces, turn))
       => /\ op'.flips >= 1
          /\ PieceCount(board', turn) >= PieceCount(board, turn) + 2
          /\ Cardinality(Occupied(board') \ OwnedBy(board', turn))
                <= Cardinality(Occupied(board) \ OwnedBy(board, turn)) - 1]_vars

C28_Witness ==
    /\ op.name = "apply_move"
    /\ players = 3
    /\ othello
    /\ op.flips = 1
    /\ PieceCount(board, op.by) >= 3

\* C26: available_moves, legal_move, piece_at, done and outcome leave the
\* grid and the piece lists as they are; available_moves, legal_move and
\* piece_at leave turn as it is too.
C26_QueriesKeepBoard ==
    [][op'.name \in {"available_moves", "legal_move", "piece_at",
                     "done", "outcome"}
       => /\ board' = board
          /\ location_of_pieces' = location_of_pieces
          /\ op'.name \in {"available_moves", "legal_move", "piece_at"}
                => turn' = turn]_vars

C26_Witness ==
    /\ op.name = "legal_move"
    /\ op.result = TRUE
    /\ InOpening(board)
    /\ depth > 0
    /\ board[op.pos] = None

\* C23: when no player has a move, apply_move with any on-board position
\* leaves the grid and the piece lists as they are.
C23_FinishedGamePlacesNothing ==
    [][(op'.name = "apply_move" /\ GameOver(board) /\ op'.pos \in Cells)
       => (board' = board /\ location_of_pieces' = location_of_pieces)]_vars

C23_Witness ==
    /\ op.name = "apply_move"
    /\ op.raised = "none"
    /\ GameOver(board)
    /\ op.pos \in Cells
    /\ board[op.pos] = None

\* C29: once done is true it is true after every further apply_move and
\* done call, and no player has a move on the board those calls leave.
C29_TerminalAbsorbing ==
    [][(done(location_of_pieces, turn).result
          /\ op'.name \in {"apply_move", "done"})
       => (done(location_of_pieces', turn').result /\ GameOver(board'))]_vars

C29_Witness ==
    /\ op.name = "done"
    /\ op.result = TRUE
    /\ op.by > players
    /\ depth > 1
    /\ Occupied(board) # Cells

\* C30: in every engine the constructor accepts, more players than the side
\* included, every position available_moves returns has both coordinates in
\* 0 .. side - 1 and is an empty cell of the grid.
C30_MovesOnBoard ==
    (op.name = "available_moves" /\ op.raised = "none")
        => \A pos \in op.result : pos \in Cells /\ board[pos] = None

\* the grid, piece lists and turn of the engine, and of the engine that
\* simulate_moves returned
EngineState == [board |-> board, loc |-> location_of_pieces, turn |-> turn]

SimGameState ==
    [board |-> sim_game.board, loc |-> sim_game.loc, turn |-> sim_game.turn]

\* C22: the engine simulate_moves([m1..mk]) returns for a list of legal
\* moves has the grid, piece lists and turn the engine itself has once
\* apply_move(m1), ..., apply_move(mk) were called on it, skipped players
\* included; and an apply_move on the engine leaves the returned engine as
\* it is, as one on the returned engine leaves the engine.
C22_SimulateEqualsReplay ==
    /\ [][(op'.name = "apply_move" /\ depth' = depth + 1
              /\ sim_game'.replaying /\ sim_game'.todo = <<>>)
          => EngineState' = SimGameState']_vars
    /\ [][(op'.name = "simulate_moves" /\ op'.pos = <<>>
              /\ sim_game'.obj # NoObj)
          => EngineState' = SimGameState']_vars
    /\ [][(op'.name = "apply_move" /\ depth' = depth + 1
              /\ sim_game.obj # NoObj)
          => SimGameState' = SimGameState]_vars
    /\ [][(op'.name = "sim_game.apply_move"
              /\ sim_game'.moves = sim_game.moves + 1)
          => EngineState' = EngineState]_vars

C22_Witness ==
    /\ op.name = "apply_move"
    /\ sim_game.replaying
    /\ sim_game.todo = <<>>
    /\ sim_game.obj = 1
    /\ depth >= 2
    /\ op.flips >= 1
    /\ ~GameOver(board)
    /\ turn # PlayerAfter(op.by, 1)
    /\ EngineState = SimGameState

====
